---- MODULE Spec2Model ----
(***************************************************************************)
(* Resilience layer of paper-search-mcp-nodejs.                            *)
(*                                                                         *)
(*   Part I   RateLimiter (src/unnamed/part_001): token bucket with a      *)
(*            wait queue, a periodic sweep and a stale-wait cleanup.       *)
(*   Part II  SciHubSearcher mirror health (src/unnamed/part_004): probe   *)
(*            rounds, mirror ranking, failure counting and selection.      *)
(*   Part III SpringerSearcher.search (src/src/platforms/                  *)
(*            SpringerSearcher.ts): a rate-limited connector, its          *)
(*            requests and its handling of error responses.                *)
(*   Part IV  SciHubSearcher.search (src/unnamed/part_004): the test of    *)
(*            the query that precedes a fetch.                             *)
(*                                                                         *)
(* Time is the value of Date.now() in milliseconds.  Non-integer token     *)
(* counts (requestsPerSecond = 0.5, 2.5, ...) are kept exactly: a          *)
(* configuration gives requestsPerSecond as the fraction rpsNum / rpsDen   *)
(* and every token quantity is stored multiplied by rpsDen.                *)
(***************************************************************************)
EXTENDS Integers, Sequences, FiniteSets, TLC

VARIABLES
    \* ---- RateLimiter ----
    cfg,              \* constructor options: [rpsNum, rpsDen, burst]
    tokens,           \* this.tokens * rpsDen
    lastRefill,       \* this.lastRefill
    pendingRequests,  \* this.pendingRequests: Seq of [id, timestamp]
    now,              \* Date.now()
    calls,            \* history: one record per waitForPermission call
    refilled,         \* history: total of the tokens added by refills (* rpsDen)
    lastStatus,       \* history: what getStatus() returned, if it was the last step
    ticks,            \* history: number of clock advances so far
    \* ---- SciHubSearcher ----
    mirrorSites,      \* this.mirrorSites: Seq of MirrorSite
    lastHealthCheck,  \* this.lastHealthCheck (NoTime = null)
    rounds,           \* the checkMirrorHealth() calls made so far
    fetches,          \* the fetchPaperInfo() calls: position and locals
    reported,         \* history: markMirrorFailed calls per url since its last probe result
    answers,          \* history: number of answers getCurrentMirror has given
    probed,           \* history: url and outcome of the probe that settled in the last step
    \* ---- SpringerSearcher ----
    searches,         \* the search() calls: position, options and history
    hasOpenAccessAPI, \* this.hasOpenAccessAPI: "undefined", "true", "false"
    wire,             \* history: the requests sent to the Springer API, in order
    response,         \* history: call and status of the response handled in the last step
    \* ---- SciHubSearcher.search ----
    query,            \* the query of the search() call, as a sequence of text pieces
    searchResult      \* "-" (no call yet), "empty" (returned []), "fetching"

rlvars == <<cfg, tokens, lastRefill, pendingRequests, calls, refilled, lastStatus>>
shvars == <<mirrorSites, lastHealthCheck, rounds, fetches, reported, answers, probed>>

spvars == <<searches, hasOpenAccessAPI, wire, response>>

\* No response was handled in the step.
NoResponse == [call |-> 0, status |-> 0]

qvars == <<query, searchResult>>

vars == <<rlvars, shvars, spvars, qvars, now, ticks>>

(***************************************************************************)
(* Bounds of the model.                                                    *)
(***************************************************************************)
MaxCalls == 6     \* waitForPermission calls in one behaviour
MaxTicks == 3     \* clock advances in one behaviour
MaxQueue == 1     \* length of the wait queue in the unbounded-time specification
NumMirrors == 2   \* configured mirrors
MaxRounds == 3    \* checkMirrorHealth() calls in one behaviour
MaxOpen == 2      \* checkMirrorHealth() calls in flight at once
MaxFetches == 1   \* fetchPaperInfo() calls in one behaviour
MaxSearcherTicks == 1   \* clock advances in one behaviour of the searcher

Min(a, b) == IF a <= b THEN a ELSE b
Max(a, b) == IF a >= b THEN a ELSE b
CeilDiv(a, b) == (a + b - 1) \div b

(***************************************************************************)
(* Part I.  RateLimiter                                                    *)
(***************************************************************************)

\* RateLimiterOptions the model constructs limiters with.  burst = 0 stands
\* for an omitted burstCapacity (options.burstCapacity || requestsPerSecond
\* takes the same branch for undefined and for 0).
Configs ==
    { [rpsNum |-> 10, rpsDen |-> 1,  burst |-> 5],    \* 10 /s, burst 5
      [rpsNum |-> 2,  rpsDen |-> 1,  burst |-> 0],    \* 2 /s, burst omitted
      [rpsNum |-> 1,  rpsDen |-> 2,  burst |-> 0],    \* 0.5 /s, burst omitted
      [rpsNum |-> 5,  rpsDen |-> 2,  burst |-> 0],    \* 2.5 /s, burst omitted
      [rpsNum |-> 1,  rpsDen |-> 40, burst |-> 2] }   \* 0.025 /s, burst 2

\* cleanup(): const timeoutMs = 30000
timeoutMs == 30000

\* this.burstCapacity * rpsDen
burstCapacity(c) == IF c.burst # 0 THEN c.burst * c.rpsDen ELSE c.rpsNum

\* this.intervalMs = 1000 / requestsPerSecond (whole in every Configs entry)
intervalMs(c) == (1000 * c.rpsDen) \div c.rpsNum

\* One token, in the stored unit.
OneToken(c) == c.rpsDen

\* The limiter's mutable fields as one value.
Limiter == [tokens |-> tokens, lastRefill |-> lastRefill,
            pendingRequests |-> pendingRequests]

\* A refill that credits a started interval as a whole one (rounds up).
refillTokensRoundUp(c, s, t) ==
    LET timePassed == t - s.lastRefill
    IN  IF timePassed > 0
        THEN LET tokensToAdd == CeilDiv(timePassed * c.rpsNum, 1000 * c.rpsDen)
             IN  [s EXCEPT !.tokens = Min(burstCapacity(c),
                                          s.tokens + tokensToAdd * OneToken(c)),
                           !.lastRefill = t]
        ELSE s

\* refillTokens(): the limiter after a refill at time t.
refillTokens(c, s, t) ==
    LET timePassed == t - s.lastRefill
    IN  IF timePassed * c.rpsNum >= 1000 * c.rpsDen
        THEN LET tokensToAdd == (timePassed * c.rpsNum) \div (1000 * c.rpsDen)
             IN  [s EXCEPT !.tokens = Min(burstCapacity(c),
                                          s.tokens + tokensToAdd * OneToken(c)),
                           !.lastRefill = t]
        ELSE s

\* An immediate path that forgets this.tokens--.
waitForPermissionNoCharge(c, s, t, id) ==
    LET r == refillTokens(c, s, t)
    IN  IF r.tokens > 0
        THEN <<r, TRUE>>
        ELSE <<[r EXCEPT !.pendingRequests =
                    Append(r.pendingRequests, [id |-> id, timestamp |-> t])],
               FALSE>>

\* waitForPermission(): <<limiter after the call, TRUE iff resolved at once>>.
waitForPermission(c, s, t, id) ==
    LET r == refillTokens(c, s, t)
    IN  IF r.tokens > 0
        THEN <<[r EXCEPT !.tokens = r.tokens - OneToken(c)], TRUE>>
        ELSE <<[r EXCEPT !.pendingRequests =
                    Append(r.pendingRequests, [id |-> id, timestamp |-> t])],
               FALSE>>

\* A drain loop that forgets this.tokens--.
RECURSIVE drainNoCharge(_, _, _)
drainNoCharge(c, s, done) ==
    IF s.tokens > 0 /\ Len(s.pendingRequests) > 0
    THEN drainNoCharge(c,
               [s EXCEPT !.pendingRequests = Tail(s.pendingRequests)],
               Append(done, Head(s.pendingRequests).id))
    ELSE <<s, done>>

\* A drain loop that takes the newest entry (pop() instead of shift()).
RECURSIVE drainLifo(_, _, _)
drainLifo(c, s, done) ==
    IF s.tokens > 0 /\ Len(s.pendingRequests) > 0
    THEN drainLifo(c,
               [s EXCEPT !.tokens = s.tokens - OneToken(c),
                         !.pendingRequests =
                             SubSeq(s.pendingRequests, 1, Len(s.pendingRequests) - 1)],
               Append(done, s.pendingRequests[Len(s.pendingRequests)].id))
    ELSE <<s, done>>

\* The while loop of processPendingRequests(): <<limiter, ids resolved in order>>.
RECURSIVE drain(_, _, _)
drain(c, s, done) ==
    IF s.tokens > 0 /\ Len(s.pendingRequests) > 0
    THEN drain(c,
               [s EXCEPT !.tokens = s.tokens - OneToken(c),
                         !.pendingRequests = Tail(s.pendingRequests)],
               Append(done, Head(s.pendingRequests).id))
    ELSE <<s, done>>

\* processPendingRequests(): <<limiter after the sweep, ids resolved in order>>.
processPendingRequests(c, s, t) == drain(c, refillTokens(c, s, t), <<>>)

\* A cleanup loop without the age test: it empties the queue.
RECURSIVE expireAll(_, _, _)
expireAll(s, t, done) ==
    IF Len(s.pendingRequests) > 0
    THEN expireAll([s EXCEPT !.pendingRequests = Tail(s.pendingRequests)], t,
                   Append(done, Head(s.pendingRequests).id))
    ELSE <<s, done>>

\* The while loop of cleanup(): <<limiter, ids resolved in order>>.
RECURSIVE expire(_, _, _)
expire(s, t, done) ==
    IF Len(s.pendingRequests) > 0
       /\ t - Head(s.pendingRequests).timestamp > timeoutMs
    THEN expire([s EXCEPT !.pendingRequests = Tail(s.pendingRequests)], t,
                Append(done, Head(s.pendingRequests).id))
    ELSE <<s, done>>

\* cleanup(): <<limiter after the call, ids resolved in order>>.
cleanup(s, t) == expire(s, t, <<>>)

\* getStatus(): the limiter after the call (the refill is its only effect).
getStatus(c, s, t) == refillTokens(c, s, t)

\* A getStatus() that reads this.tokens before refilling.
getStatusNoRefill(c, s, t) ==
    [availableTokens   |-> s.tokens,
     maxTokens         |-> burstCapacity(c),
     requestsPerSecond |-> <<c.rpsNum, c.rpsDen>>,
     pendingRequests   |-> Len(s.pendingRequests)]

\* getStatus(): the object it returns (token quantities * rpsDen,
\* requestsPerSecond as <<rpsNum, rpsDen>>).
getStatusReturns(c, s, t) ==
    LET r == refillTokens(c, s, t)
    IN  [availableTokens   |-> r.tokens,
         maxTokens         |-> burstCapacity(c),
         requestsPerSecond |-> <<c.rpsNum, c.rpsDen>>,
         pendingRequests   |-> Len(r.pendingRequests)]

\* The last step was not a getStatus() call.
NoStatus == [availableTokens |-> 0, maxTokens |-> 0,
             requestsPerSecond |-> <<0, 1>>, pendingRequests |-> 0]

----------------------------------------------------------------------------
\* History bookkeeping: calls[i] is the i-th waitForPermission call.
\*   timestamp  when it was made          via  "immediate" | "sweep" | "cleanup"
\*   at         when it was resolved           | "queued" (not resolved yet)
\*   ord        its rank among the resolved calls (0 while queued)

Resolved == {i \in 1..Len(calls) : calls[i].via # "queued"}

\* calls after the ids of `done` were resolved, in that order, by `how` at t.
RECURSIVE Resolve(_, _, _, _, _)
Resolve(cs, done, how, t, k) ==
    IF done = <<>> THEN cs
    ELSE Resolve([cs EXCEPT ![Head(done)] =
                     [@ EXCEPT !.via = how, !.at = t, !.ord = k + 1]],
                 Tail(done), how, t, k + 1)

Install(s) ==
    /\ tokens' = s.tokens
    /\ lastRefill' = s.lastRefill
    /\ pendingRequests' = s.pendingRequests

\* Tokens a step added to the bucket: what the refill at time t adds.
Added(c, s, t) == refillTokens(c, s, t).tokens - s.tokens

\* undefined / null for a time or a duration (MirrorSite.lastChecked?,
\* MirrorSite.responseTime?, lastHealthCheck: Date | null).
NoTime == -1

\* The last step was not the settling of a probe.
NoProbe == [url |-> 0, outcome |-> "-"]

\* The limiter's specifications have no SciHubSearcher in them.
SearcherIdle ==
    /\ mirrorSites = <<>>
    /\ lastHealthCheck = NoTime
    /\ rounds = <<>>
    /\ fetches = <<>>
    /\ reported = <<>>
    /\ answers = 0
    /\ probed = NoProbe

\* The limiter's and the Sci-Hub specifications have no SpringerSearcher.
SpringerIdle ==
    /\ searches = <<>>
    /\ hasOpenAccessAPI = "undefined"
    /\ wire = <<>>
    /\ response = NoResponse

\* No search() call with a query of its own is followed.
QueryIdle ==
    /\ query = <<>>
    /\ searchResult = "-"

----------------------------------------------------------------------------
\* constructor: tokens = burstCapacity, lastRefill = Date.now(), empty queue.
Init ==
    /\ cfg \in Configs
    /\ tokens = burstCapacity(cfg)
    /\ lastRefill = 0
    /\ pendingRequests = <<>>
    /\ now = 0
    /\ calls = <<>>
    /\ refilled = 0
    /\ lastStatus = NoStatus
    /\ ticks = 0
    /\ SearcherIdle
    /\ SpringerIdle
    /\ QueryIdle

\* A caller invokes waitForPermission().
WaitForPermission ==
    /\ Len(calls) < MaxCalls
    /\ LET id == Len(calls) + 1
           r  == waitForPermission(cfg, Limiter, now, id)
       IN  /\ Install(r[1])
           /\ calls' = Append(calls,
                  IF r[2]
                  THEN [timestamp |-> now, via |-> "immediate", at |-> now,
                        ord |-> Cardinality(Resolved) + 1]
                  ELSE [timestamp |-> now, via |-> "queued", at |-> 0, ord |-> 0])
    /\ refilled' = refilled + Added(cfg, Limiter, now)
    /\ lastStatus' = NoStatus
    /\ UNCHANGED <<cfg, now, ticks, shvars, spvars, qvars>>

\* The setInterval callback of the constructor fires.
ProcessPendingRequests ==
    /\ LET r == processPendingRequests(cfg, Limiter, now)
       IN  /\ Install(r[1])
           /\ calls' = Resolve(calls, r[2], "sweep", now, Cardinality(Resolved))
    /\ refilled' = refilled + Added(cfg, Limiter, now)
    /\ lastStatus' = NoStatus
    /\ UNCHANGED <<cfg, now, ticks, shvars, spvars, qvars>>

\* A caller invokes getStatus().
GetStatus ==
    /\ Install(getStatus(cfg, Limiter, now))
    /\ lastStatus' = getStatusReturns(cfg, Limiter, now)
    /\ refilled' = refilled + Added(cfg, Limiter, now)
    /\ UNCHANGED <<cfg, now, calls, ticks, shvars, spvars, qvars>>

\* A caller invokes cleanup().
Cleanup ==
    /\ LET r == cleanup(Limiter, now)
       IN  /\ Install(r[1])
           /\ calls' = Resolve(calls, r[2], "cleanup", now, Cardinality(Resolved))
    /\ lastStatus' = NoStatus
    /\ UNCHANGED <<cfg, now, refilled, ticks, shvars, spvars, qvars>>

\* Amounts the clock advances by: half a refill interval, a whole one, and
\* just over the stale-wait timeout.
Deltas(c) == {intervalMs(c) \div 2, intervalMs(c), timeoutMs + 1}

\* Time passes.
Tick ==
    /\ ticks < MaxTicks
    /\ \E d \in Deltas(cfg) : now' = now + d
    /\ ticks' = ticks + 1
    /\ lastStatus' = NoStatus
    /\ UNCHANGED <<cfg, tokens, lastRefill, pendingRequests, calls, refilled, shvars, spvars, qvars>>

Next ==
    \/ WaitForPermission
    \/ ProcessPendingRequests
    \/ GetStatus
    \/ Cleanup
    \/ Tick

Spec == Init /\ [][Next]_vars

----------------------------------------------------------------------------
(***************************************************************************)
(* The limiter over unbounded time, for the liveness claims.               *)
(*                                                                         *)
(* The same operations, with callers arriving for ever.  To keep the state *)
(* finite the clock is read relative to the present: now stays 0 and the   *)
(* passing of d ms moves lastRefill and every queued timestamp d ms into   *)
(* the past.  A timestamp older than timeoutMs is stale whatever its age,  *)
(* and a lastRefill older than FullAge refills the bucket to capacity      *)
(* whatever its age, so ages stop growing there.  The history variables    *)
(* (calls, refilled, lastStatus, ticks) are not kept.                      *)
(***************************************************************************)

\* Age of lastRefill from which a refill fills the bucket from any level.
FullAge(c) == CeilDiv(burstCapacity(c) + OneToken(c), OneToken(c)) * intervalMs(c)

QueuedIds == {pendingRequests[k].id : k \in 1..Len(pendingRequests)}

\* A caller invokes waitForPermission(); its handle is the least id not queued.
FairWaitForPermission ==
    /\ LET id == IF QueuedIds = 1..MaxQueue THEN MaxQueue + 1
                 ELSE CHOOSE i \in 1..MaxQueue :
                          i \notin QueuedIds /\ \A j \in 1..(i - 1) : j \in QueuedIds
           r  == waitForPermission(cfg, Limiter, now, id)
       IN  /\ r[2] \/ Len(pendingRequests) < MaxQueue
           /\ Install(r[1])
    /\ UNCHANGED <<cfg, now, calls, refilled, ticks, shvars, spvars, qvars, lastStatus>>

\* The setInterval callback fires.
FairProcessPendingRequests ==
    /\ Install(processPendingRequests(cfg, Limiter, now)[1])
    /\ UNCHANGED <<cfg, now, calls, refilled, ticks, shvars, spvars, qvars, lastStatus>>

FairGetStatus ==
    /\ Install(getStatus(cfg, Limiter, now))
    /\ UNCHANGED <<cfg, now, calls, refilled, ticks, shvars, spvars, qvars, lastStatus>>

FairCleanup ==
    /\ Install(cleanup(Limiter, now)[1])
    /\ UNCHANGED <<cfg, now, calls, refilled, ticks, shvars, spvars, qvars, lastStatus>>

\* One refill interval passes.
FairTick ==
    /\ LET d == intervalMs(cfg)
       IN  /\ lastRefill' = Max(lastRefill - d, now - FullAge(cfg))
           /\ pendingRequests' =
                  [k \in 1..Len(pendingRequests) |->
                      [pendingRequests[k] EXCEPT !.timestamp =
                          Max(@ - d, now - (timeoutMs + 1))]]
    /\ UNCHANGED <<cfg, tokens, now, calls, refilled, ticks, shvars, spvars, qvars, lastStatus>>

FairNext ==
    \/ FairWaitForPermission
    \/ FairProcessPendingRequests
    \/ FairGetStatus
    \/ FairCleanup
    \/ FairTick

\* The sweep is a setInterval timer, so it keeps firing; time keeps passing.
FairSpec ==
    /\ Init
    /\ [][FairNext]_vars
    /\ WF_vars(FairProcessPendingRequests)
    /\ WF_vars(FairTick)

----------------------------------------------------------------------------
(***************************************************************************)
(* Claims about the RateLimiter                                            *)
(***************************************************************************)

\* Calls that went through the wait queue, and calls resolved with a token.
Enqueued == {i \in 1..Len(calls) : calls[i].via # "immediate"}
Charged  == {i \in 1..Len(calls) : calls[i].via \in {"immediate", "sweep"}}
Released == {i \in 1..Len(calls) : calls[i].via = "cleanup"}

\* Tokens taken out of the bucket so far (in the stored unit): what the
\* bucket started with, plus what refills added, minus what is left.
Spent == burstCapacity(cfg) + refilled - tokens

\* C1: in every reachable state, for every configuration the constructor
\* accepts, 0 <= tokens <= capacity.
C1_CapacityInvariant == 0 <= tokens /\ tokens <= burstCapacity(cfg)

\* C2 (as stated): every waitForPermission call that has completed had one
\* token decremented on its behalf, and none completed by rejection.
C2_TokenPerCompletion ==
    /\ Spent = Cardinality(Resolved) * OneToken(cfg)
    /\ \A i \in 1..Len(calls) :
           calls[i].via \in {"queued", "immediate", "sweep", "cleanup"}

\* C2 (amended): every call completed by the immediate path or by a sweep had
\* one token decremented on its behalf; the only other completions are those
\* of cleanup(), which resolves (never rejects) entries that waited more than
\* 30 s without taking a token.
C2_TokenPerCompletionExceptCleanup ==
    /\ Spent = Cardinality(Charged) * OneToken(cfg)
    /\ Resolved = Charged \cup Released
    /\ \A i \in Released : calls[i].at - calls[i].timestamp > timeoutMs

C2_Witness ==
    /\ \E i \in Resolved : calls[i].via = "sweep"
    /\ \E i \in Resolved : calls[i].via = "cleanup"
    /\ \E i \in Resolved : calls[i].via = "immediate"

\* C3: in any time window of length T the number of calls granted is at most
\* capacity + ceil(T / refillIntervalMs).  (Windows that start and end at a
\* grant are the tightest ones.)
C3_RateContract ==
    \A i, j \in Resolved :
        calls[i].at <= calls[j].at =>
            LET T == calls[j].at - calls[i].at
                n == Cardinality({k \in Resolved :
                         calls[i].at <= calls[k].at /\ calls[k].at <= calls[j].at})
            IN  n * OneToken(cfg) <=
                    burstCapacity(cfg)
                    + OneToken(cfg) * CeilDiv(T * cfg.rpsNum, 1000 * cfg.rpsDen)

\* C4: callers that were enqueued are granted in the order they were enqueued.
C4_QueueFifo ==
    \A i, j \in Enqueued :
        (i < j /\ j \in Resolved) => (i \in Resolved /\ calls[i].ord < calls[j].ord)

C4_Witness ==
    \E i, j \in Enqueued :
        /\ i < j /\ i \in Resolved /\ j \in Resolved
        /\ calls[i].via = "sweep" /\ calls[j].via = "sweep"
        /\ calls[i].at < calls[j].at

\* C5: grants are FIFO by arrival over all callers: a call is never granted
\* before a call that was made earlier.
C5_ArrivalFifo ==
    \A i, j \in 1..Len(calls) :
        (i < j /\ j \in Resolved) => (i \in Resolved /\ calls[i].ord < calls[j].ord)

\* The burst scenario of C6: the capacity is a whole number C and the first
\* C + 1 calls are made at the instant of construction.
IntegerCapacity == burstCapacity(cfg) % OneToken(cfg) = 0
C == burstCapacity(cfg) \div OneToken(cfg)
Burst(n) == Len(calls) >= n /\ \A i \in 1..n : calls[i].timestamp = 0

C7_QueuedEventuallyGranted ==
    \A id \in 1..MaxQueue : (id \in QueuedIds) ~> (id \notin QueuedIds)

----------------------------------------------------------------------------
(***************************************************************************)
(* Part II.  SciHubSearcher: mirror health, selection and failover         *)
(*                                                                         *)
(* The searcher runs on one thread; an async method runs without           *)
(* interruption from one await on the network to the next.  The steps are  *)
(* therefore: a call starts (runs to its first network await), one probe   *)
(* of a round settles, one live request settles, time passes.  When the    *)
(* last probe of a round settles, the rest of checkMirrorHealth() and the  *)
(* continuation of the method awaiting it run in the same step (they are   *)
(* promise jobs; no network event comes between them).                     *)
(*                                                                         *)
(* A probe callback holds the MirrorSite object that was at its index when *)
(* the round started (`mirror`) and reads it when the probe settles.       *)
(* Objects are told apart by oid: sort() moves objects, a probe result     *)
(* replaces the object at its index by a new one (which takes over the     *)
(* oid), and a callback whose object was replaced keeps the replaced       *)
(* object's last value (snap).                                             *)
(***************************************************************************)

Urls == 1..NumMirrors

\* private readonly maxRetries = 3
maxRetries == 3
\* private readonly mirrorTestTimeout = 5000
mirrorTestTimeout == 5000
\* private readonly healthCheckInterval = 300000
healthCheckInterval == 300000
\* axios.create({ timeout: 15000, ... })
requestTimeout == 15000
\* markMirrorFailed: if (failureCount >= 3)
failureThreshold == 3

\* What `(a.responseTime || Infinity)` takes for Infinity.
Infinity == 1000000000

NoSnap == [url |-> 0]

\* The first index after `after` whose mirror is working; 0 if there is none
\* (Array.prototype.find / findIndex over the array order).
FirstWorking(sites, after) ==
    IF \E i \in (after + 1)..Len(sites) : sites[i].isWorking
    THEN CHOOSE i \in (after + 1)..Len(sites) :
             sites[i].isWorking /\ \A j \in (after + 1)..(i - 1) : ~sites[j].isWorking
    ELSE 0

\* this.mirrorSites.findIndex(m => m.url === mirrorUrl), 0 for -1.
FindIndex(sites, u) ==
    IF \E i \in 1..Len(sites) : sites[i].url = u
    THEN CHOOSE i \in 1..Len(sites) :
             sites[i].url = u /\ \A j \in 1..(i - 1) : sites[j].url # u
    ELSE 0

\* The comparator of checkMirrorHealth's sort: TRUE iff compare(a, b) < 0.
\* (Infinity - Infinity is NaN, which sort() takes for 0.)
SortKey(m) == IF m.responseTime = NoTime \/ m.responseTime = 0
              THEN Infinity ELSE m.responseTime
Before(a, b) ==
    \/ a.isWorking /\ ~b.isWorking
    \/ a.isWorking /\ b.isWorking /\ SortKey(a) < SortKey(b)

\* Array.prototype.sort is stable: insertion after the last element that
\* does not compare greater.
RECURSIVE InsertSorted(_, _)
InsertSorted(sorted, m) ==
    IF sorted = <<>> THEN <<m>>
    ELSE IF Before(m, sorted[Len(sorted)])
         THEN Append(InsertSorted(SubSeq(sorted, 1, Len(sorted) - 1), m),
                     sorted[Len(sorted)])
         ELSE Append(sorted, m)

RECURSIVE SortSites(_)
SortSites(sites) ==
    IF sites = <<>> THEN <<>>
    ELSE InsertSorted(SortSites(SubSeq(sites, 1, Len(sites) - 1)), sites[Len(sites)])

\* A staleness test that takes "never checked" (null) for fresh.
StaleSkipsNull(lhc, t) == lhc # NoTime /\ t - lhc > healthCheckInterval

\* if (!this.lastHealthCheck || Date.now() - lastHealthCheck > healthCheckInterval)
Stale(lhc, t) == lhc = NoTime \/ t - lhc > healthCheckInterval

----------------------------------------------------------------------------
\* The synchronous stretches of fetchPaperInfo / getCurrentMirror /
\* markMirrorFailed, as functions of a world w:
\*   w.sites, w.rounds, w.rep, w.ans   the searcher (mirrorSites, rounds,
\*                                     reported, answers)
\*   w.fid, w.fr                       the fetch that is running and its record
\* A fetch record:
\*   pc        "attempt" (live request in flight), "probing" (awaiting a
\*             round), "done"
\*   mirror    currentMirror          retries   retries
\*   stage     which await the fetch is at while probing:
\*             "stale"  getCurrentMirror line 154,  "forced"  line 161,
\*             "mmf"    markMirrorFailed line 195
\*   from      the call site of getCurrentMirror / markMirrorFailed:
\*             "init" line 244, "try" lines 331/336, "catch" line 341
\*   result    "paper", "null" (return null), "threw"
\*   attempts  history: the mirrors live requests were sent to
\*   ans, ansUrl, allDown, nrounds, lastOk
\*             history of the last getCurrentMirror call: its answer
\*             ("return" / "throw"), whether every mirror was unhealthy when
\*             it was called, the rounds it ran, and whether a probe of the
\*             last of them succeeded

\* A loop that tests retries <= maxRetries (one attempt too many).
LoopCheckOffByOne(w) ==
    IF w.fr.retries <= maxRetries
    THEN [w EXCEPT !.fr.pc = "attempt",
                   !.fr.attempts = Append(@, w.fr.mirror)]
    ELSE [w EXCEPT !.fr.pc = "done", !.fr.result = "null"]

\* while (retries < this.maxRetries) { ... axiosInstance.get(searchUrl)
LoopCheck(w) ==
    IF w.fr.retries < maxRetries
    THEN [w EXCEPT !.fr.pc = "attempt",
                   !.fr.attempts = Append(@, w.fr.mirror)]
    ELSE [w EXCEPT !.fr.pc = "done", !.fr.result = "null"]

\* currentMirror = <url>; retries++ (not after the call of line 244)
Continue(w, from, url) ==
    LoopCheck([w EXCEPT !.fr.mirror = url,
                        !.fr.retries = IF from = "init" THEN 0 ELSE @ + 1])

\* checkMirrorHealth() up to its await: every probe is sent.
StartRound(w, stage, from) ==
    [w EXCEPT
       !.rounds = Append(@,
           [start |-> now, owner |-> w.fid, open |-> TRUE, anyOk |-> FALSE, oks |-> 0,
            pending |-> {[index |-> i, oid |-> w.sites[i].oid, snap |-> NoSnap] :
                            i \in 1..Len(w.sites)}]),
       !.fr = [@ EXCEPT !.pc = "probing", !.stage = stage, !.from = from,
                        !.nrounds = IF stage = "mmf" THEN @ ELSE @ + 1]]

\* A markMirrorFailed that opens the circuit one failure late (> 3).
markMirrorFailedLate(w, from) ==
    LET u == w.fr.mirror
        mirrorIndex == FindIndex(w.sites, u)
        marked ==
            IF mirrorIndex # 0
            THEN LET n == w.sites[mirrorIndex].failureCount + 1
                 IN  [w.sites EXCEPT ![mirrorIndex] =
                         [@ EXCEPT !.failureCount = n,
                                   !.isWorking = IF n > failureThreshold
                                                 THEN FALSE ELSE @]]
            ELSE w.sites
        next == FirstWorking(marked, mirrorIndex)
        w1 == [w EXCEPT !.sites = marked,
                        !.rep = [@ EXCEPT ![u] = Min(@ + 1, failureThreshold)]]
    IN  IF next # 0
        THEN Continue(w1, from, marked[next].url)
        ELSE StartRound(w1, "mmf", from)

\* markMirrorFailed(currentMirror), up to its return or its await.
markMirrorFailed(w, from) ==
    LET u == w.fr.mirror
        mirrorIndex == FindIndex(w.sites, u)
        marked ==
            IF mirrorIndex # 0
            THEN LET n == w.sites[mirrorIndex].failureCount + 1
                 IN  [w.sites EXCEPT ![mirrorIndex] =
                         [@ EXCEPT !.failureCount = n,
                                   !.isWorking = IF n >= failureThreshold
                                                 THEN FALSE ELSE @]]
            ELSE w.sites
        next == FirstWorking(marked, mirrorIndex)
        w1 == [w EXCEPT !.sites = marked,
                        !.rep = [@ EXCEPT ![u] = Min(@ + 1, failureThreshold)]]
    IN  IF next # 0
        THEN Continue(w1, from, marked[next].url)
        ELSE StartRound(w1, "mmf", from)

\* getCurrentMirror() throws 'No working Sci-Hub mirrors available'.  Thrown
\* inside the try block (line 331 or 336) it lands in the catch of line 339,
\* which calls markMirrorFailed again; anywhere else it leaves fetchPaperInfo.
GcmThrow(w, from) ==
    LET w1 == [w EXCEPT !.fr.ans = "throw", !.fr.ansUrl = 0, !.ans = @ + 1]
    IN  IF from = "try"
        THEN markMirrorFailed(w1, "catch")
        ELSE [w1 EXCEPT !.fr.pc = "done", !.fr.result = "threw"]

\* getCurrentMirror() returns workingMirror.url / retryMirror.url.
GcmReturn(w, from, i) ==
    Continue([w EXCEPT !.fr.ans = "return", !.fr.ansUrl = w.sites[i].url,
                       !.ans = @ + 1],
             from, w.sites[i].url)

\* getCurrentMirror() from line 158: find the first working mirror, else probe.
GcmFind(w, from) ==
    LET i == FirstWorking(w.sites, 0)
    IN  IF i # 0 THEN GcmReturn(w, from, i) ELSE StartRound(w, "forced", from)

\* getCurrentMirror() from line 162, after the forced round.
GcmRetry(w, from) ==
    LET i == FirstWorking(w.sites, 0)
    IN  IF i # 0 THEN GcmReturn(w, from, i) ELSE GcmThrow(w, from)

\* getCurrentMirror() from its first line; lhc is this.lastHealthCheck.
getCurrentMirror(w, from, lhc) ==
    LET w1 == [w EXCEPT !.fr.ans = "-", !.fr.ansUrl = 0, !.fr.nrounds = 0,
                        !.fr.lastOk = FALSE,
                        !.fr.allDown = (FirstWorking(w.sites, 0) = 0)]
    IN  IF Stale(lhc, now) THEN StartRound(w1, "stale", from) ELSE GcmFind(w1, from)

\* What the owner of a round does when the round is over.
AfterRound(w, lhc, anyOk) ==
    LET w1 == IF w.fr.stage = "mmf" THEN w ELSE [w EXCEPT !.fr.lastOk = anyOk]
    IN  CASE w.fr.stage = "stale"  -> GcmFind(w1, w.fr.from)
          [] w.fr.stage = "forced" -> GcmRetry(w1, w.fr.from)
          [] w.fr.stage = "mmf"    -> getCurrentMirror(w1, w.fr.from, lhc)

----------------------------------------------------------------------------
NewFetch ==
    [pc |-> "done", mirror |-> 0, retries |-> 0, stage |-> "-", from |-> "-",
     result |-> "-", attempts |-> <<>>, ans |-> "-", ansUrl |-> 0,
     allDown |-> FALSE, nrounds |-> 0, lastOk |-> FALSE]

World(fid, fr) ==
    [sites |-> mirrorSites, rounds |-> rounds, rep |-> reported, ans |-> answers,
     fid |-> fid, fr |-> fr]

\* The probes of a round, as the constructor and forceHealthCheck send them.
Probes(sites) ==
    {[index |-> i, oid |-> sites[i].oid, snap |-> NoSnap] : i \in 1..Len(sites)}

\* constructor: eleven mirrors in the source, NumMirrors here, all
\* { isWorking: true, failureCount: 0 }; then this.checkMirrorHealth().
SearcherConstructed ==
    /\ mirrorSites = [i \in Urls |->
           [url |-> i, isWorking |-> TRUE, failureCount |-> 0,
            responseTime |-> NoTime, oid |-> i]]
    /\ lastHealthCheck = NoTime
    /\ rounds = <<[start |-> 0, owner |-> 0, open |-> TRUE, anyOk |-> FALSE, oks |-> 0,
                   pending |-> {[index |-> i, oid |-> i, snap |-> NoSnap] : i \in Urls}]>>
    /\ fetches = <<>>
    /\ reported = [u \in Urls |-> 0]
    /\ answers = 0
    /\ probed = NoProbe
    /\ now = 0
    /\ ticks = 0
    \* Sci-Hub has no RateLimiter.
    /\ cfg = [rpsNum |-> 1, rpsDen |-> 1, burst |-> 0]
    /\ tokens = 0
    /\ lastRefill = 0
    /\ pendingRequests = <<>>
    /\ calls = <<>>
    /\ refilled = 0
    /\ lastStatus = NoStatus
    /\ SpringerIdle

SearcherInit == SearcherConstructed /\ QueryIdle

\* The world's effect on the variables; fid = 0 when no fetch ran.
OpenRounds(rs) == {r \in 1..Len(rs) : rs[r].open}

Commit(w) ==
    /\ Len(w.rounds) <= MaxRounds
    /\ Cardinality(OpenRounds(w.rounds)) <= MaxOpen
    /\ mirrorSites' = w.sites
    /\ rounds' = w.rounds
    /\ reported' = w.rep
    /\ answers' = w.ans
    /\ fetches' = IF w.fid = 0 THEN fetches
                  ELSE IF w.fid > Len(fetches) THEN Append(fetches, w.fr)
                  ELSE [fetches EXCEPT ![w.fid] = w.fr]

\* A caller invokes fetchPaperInfo (search, getPaperByDoi, downloadPdf):
\* let currentMirror = await this.getCurrentMirror()
FetchPaperInfo ==
    /\ Len(fetches) < MaxFetches
    /\ Commit(getCurrentMirror(World(Len(fetches) + 1, NewFetch), "init",
                               lastHealthCheck))
    /\ probed' = NoProbe
    /\ UNCHANGED <<lastHealthCheck, now, ticks, rlvars, spvars, qvars>>

\* A success path that clears the failure counters.
ReturnPaperResets(w) ==
    [w EXCEPT !.fr.pc = "done", !.fr.result = "paper",
              !.sites = [i \in 1..Len(w.sites) |->
                            [w.sites[i] EXCEPT !.failureCount = 0]]]

\* return PaperFactory.create({ ... }) (line 312): the fetch is over.
ReturnPaper(w) == [w EXCEPT !.fr.pc = "done", !.fr.result = "paper"]

\* The live request of a fetch settles: the paper is found ("found"), the
\* response has no PDF or a status other than 200 ("miss", lines 329-338), or
\* the request throws ("error", line 339).
LiveRequestSettles ==
    \E f \in 1..Len(fetches), outcome \in {"found", "miss", "error"} :
        /\ fetches[f].pc = "attempt"
        /\ LET w == World(f, fetches[f])
           IN  Commit(CASE outcome = "found" -> ReturnPaper(w)
                        [] outcome = "miss"  -> markMirrorFailed(w, "try")
                        [] outcome = "error" -> markMirrorFailed(w, "catch"))
        /\ probed' = NoProbe
        /\ UNCHANGED <<lastHealthCheck, now, ticks, rlvars, spvars, qvars>>

\* A caller invokes forceHealthCheck().
ForceHealthCheck ==
    /\ Len(rounds) < MaxRounds
    /\ Cardinality(OpenRounds(rounds)) < MaxOpen
    /\ rounds' = Append(rounds,
           [start |-> now, owner |-> 0, open |-> TRUE, anyOk |-> FALSE, oks |-> 0,
            pending |-> Probes(mirrorSites)])
    /\ probed' = NoProbe
    /\ UNCHANGED <<mirrorSites, lastHealthCheck, fetches, reported, answers,
                   now, ticks, rlvars, spvars, qvars>>

\* The MirrorSite a probe callback reads as `mirror` when it settles.
Captured(sites, p) ==
    IF p.oid # 0
    THEN sites[CHOOSE i \in 1..Len(sites) : sites[i].oid = p.oid]
    ELSE p.snap

\* A probe result that takes any response for a working mirror (no test of
\* the status or of the Sci-Hub markers).
ProbeResultAnyResponse(mirror, outcome, start, slot) ==
    IF outcome = "error"
    THEN [mirror EXCEPT !.isWorking = FALSE,
                        !.failureCount = @ + 1, !.oid = slot]
    ELSE [mirror EXCEPT !.responseTime = now - start,
                        !.isWorking = TRUE,
                        !.failureCount = 0, !.oid = slot]

\* this.mirrorSites[index] = { ...mirror, ... }: lines 101-107 for a response
\* (isWorking = status 200 and the Sci-Hub markers), lines 115-120 for a throw.
ProbeResult(mirror, outcome, start, slot) ==
    IF outcome = "error"
    THEN [mirror EXCEPT !.isWorking = FALSE,
                        !.failureCount = @ + 1, !.oid = slot]
    ELSE [mirror EXCEPT !.responseTime = now - start,
                        !.isWorking = (outcome = "ok"),
                        !.failureCount = 0, !.oid = slot]

\* Callbacks whose object was replaced keep its last value.
Detach(rs, old) ==
    [k \in 1..Len(rs) |->
        [rs[k] EXCEPT !.pending =
            {IF p.oid = old.oid THEN [p EXCEPT !.oid = 0, !.snap = old] ELSE p :
                 p \in @}]]

ClosedRound == [start |-> 0, owner |-> 0, open |-> FALSE, anyOk |-> FALSE, oks |-> 0, pending |-> {}]

\* One probe of a round settles: "ok" (status 200 with the markers), "invalid"
\* (another 2xx status, or no markers), "error" (axios throws: no connection,
\* timeout, status outside 2xx).  After the last one: sort, lastHealthCheck,
\* and the method awaiting the round goes on.
ProbeSettles ==
    \E r \in 1..Len(rounds), outcome \in {"ok", "invalid", "error"} :
      \E p \in rounds[r].pending :
        /\ rounds[r].open
        /\ outcome # "error" => now - rounds[r].start < mirrorTestTimeout
        /\ LET mirror  == Captured(mirrorSites, p)
               old     == mirrorSites[p.index]
               written == [mirrorSites EXCEPT ![p.index] =
                              ProbeResult(mirror, outcome, rounds[r].start, old.oid)]
               rs1     == [rounds EXCEPT ![r].pending = @ \ {p},
                                         ![r].anyOk = @ \/ outcome = "ok",
                                         ![r].oks = IF outcome = "ok" THEN @ + 1 ELSE @]
               rs2     == Detach(rs1, old)
               rep1    == [reported EXCEPT ![mirror.url] = 0]
               last    == rs2[r].pending = {}
               owner   == rounds[r].owner
           IN  IF ~last
               THEN /\ mirrorSites' = written
                    /\ rounds' = rs2
                    /\ reported' = rep1
                    /\ UNCHANGED <<lastHealthCheck, fetches, answers, lastStatus>>
               ELSE /\ lastHealthCheck' = now
                    /\ LET w == [sites |-> SortSites(written),
                                 rounds |-> [rs2 EXCEPT ![r] = [ClosedRound EXCEPT !.oks = rs2[r].oks]],
                                 rep |-> rep1, ans |-> answers,
                                 fid |-> owner,
                                 fr |-> IF owner = 0 THEN NewFetch ELSE fetches[owner]]
                       IN  Commit(IF owner = 0 THEN w
                                  ELSE AfterRound(w, now, rs2[r].anyOk))
        /\ probed' = [url |-> Captured(mirrorSites, p).url, outcome |-> outcome]
        /\ UNCHANGED <<now, ticks, rlvars, spvars, qvars>>

\* Time passes: a millisecond, or more than the health-check interval.  No
\* request stays in flight beyond its timeout.
SearcherTick ==
    /\ ticks < MaxSearcherTicks
    /\ \E d \in {1, healthCheckInterval + 1} :
          /\ \A r \in 1..Len(rounds) :
                 rounds[r].open => now + d - rounds[r].start <= mirrorTestTimeout
          /\ (\E f \in 1..Len(fetches) : fetches[f].pc = "attempt") => d <= requestTimeout
          /\ now' = now + d
    /\ ticks' = ticks + 1
    /\ probed' = NoProbe
    /\ UNCHANGED <<mirrorSites, lastHealthCheck, rounds, fetches, reported, answers,
                   rlvars, spvars, qvars>>

SearcherNext ==
    \/ FetchPaperInfo
    \/ LiveRequestSettles
    \/ ForceHealthCheck
    \/ ProbeSettles
    \/ SearcherTick

SearcherSpec == SearcherInit /\ [][SearcherNext]_vars

----------------------------------------------------------------------------
(***************************************************************************)
(* Claims about the SciHubSearcher                                         *)
(*   selectEndpoint = getCurrentMirror, reportFailure = markMirrorFailed,  *)
(*   isHealthy = isWorking, consecutiveFailures = failureCount,            *)
(*   measured latency = responseTime.                                      *)
(***************************************************************************)

Healthy(sites, u) == \E i \in 1..Len(sites) : sites[i].url = u /\ sites[i].isWorking

\* Fetch f ran in this step and its getCurrentMirror call gave an answer.
Answer(f) ==
    /\ answers' = answers + 1
    /\ f <= Len(fetches')
    /\ f > Len(fetches) \/ fetches'[f] # fetches[f]

\* C8: after three consecutive reportFailure calls for one endpoint (no probe
\* result for it in between) the endpoint is unhealthy, and selectEndpoint does
\* not return it while another endpoint is healthy.
C8_OpenAfterThreeFailures ==
    \A u \in Urls : reported[u] >= failureThreshold => ~Healthy(mirrorSites, u)

C8_OpenNotSelected ==
    \A f \in 1..MaxFetches :
        (Answer(f) /\ fetches'[f].ans = "return") =>
            LET u == fetches'[f].ansUrl
            IN  ~(/\ reported'[u] >= failureThreshold
                  /\ \E v \in Urls \ {u} : Healthy(mirrorSites', v))

C8_CircuitOpens == []C8_OpenAfterThreeFailures /\ [][C8_OpenNotSelected]_vars

\* C9: a selectEndpoint call made while every endpoint is unhealthy runs a
\* probe round before it answers, and if a probe of that round succeeded it
\* returns a healthy endpoint instead of failing.
C9_Recovers ==
    \A f \in 1..MaxFetches :
        (Answer(f) /\ fetches'[f].allDown) =>
            /\ fetches'[f].nrounds >= 1
            /\ fetches'[f].lastOk =>
                  /\ fetches'[f].ans = "return"
                  /\ Healthy(mirrorSites', fetches'[f].ansUrl)

C9_CircuitRecovery == [][C9_Recovers]_vars

\* C10: whenever selectEndpoint returns an endpoint, it is healthy at that
\* moment and no other healthy endpoint has a strictly lower measured latency.
C10_Best ==
    \A f \in 1..MaxFetches :
        (Answer(f) /\ fetches'[f].ans = "return") =>
            LET i == FirstWorking(mirrorSites', 0)
            IN  /\ i # 0
                /\ mirrorSites'[i].url = fetches'[f].ansUrl
                /\ \A j \in 1..Len(mirrorSites') :
                       (mirrorSites'[j].isWorking /\ j # i) =>
                           mirrorSites'[j].responseTime >= mirrorSites'[i].responseTime

C10_ReturnsBestHealthy == [][C10_Best]_vars

\* C11: selectEndpoint ends in failure only right after a forced probe round
\* of its own in which no endpoint's probe succeeded; otherwise it returns an
\* endpoint.
C11_Fails ==
    \A f \in 1..MaxFetches :
        (Answer(f) /\ fetches'[f].ans = "throw") =>
            /\ fetches'[f].nrounds >= 1
            /\ ~fetches'[f].lastOk

C11_FailsOnlyAfterFruitlessRound == [][C11_Fails]_vars

\* C12: one fetch sends at most maxRetries live requests, whatever the
\* outcomes of its attempts and of the probe rounds run between them.
C12_RetryBudget ==
    \A f \in 1..Len(fetches) : Len(fetches[f].attempts) <= maxRetries

\* A fetch that used its whole budget, with a probe round started by
\* markMirrorFailed between two of its attempts.
C12_Witness ==
    \E f \in 1..Len(fetches) :
        /\ fetches[f].pc = "done"
        /\ fetches[f].result = "null"
        /\ Len(fetches[f].attempts) = maxRetries
        /\ fetches[f].stage = "mmf"

\* C13: a fetch whose live attempts all failed and whose retry budget is used
\* up ends with a failure raised to its caller, never with a null result.
C13_ExhaustionRaises ==
    \A f \in 1..Len(fetches) :
        (fetches[f].pc = "done" /\ fetches[f].retries >= maxRetries) =>
            fetches[f].result = "threw"

\* C14: within one fetch, the attempt that follows a failed attempt on
\* endpoint e targets an endpoint other than e.
C14_FailedEndpointSkipped ==
    \A f \in 1..Len(fetches) :
        \A k \in 1..(Len(fetches[f].attempts) - 1) :
            fetches[f].attempts[k + 1] # fetches[f].attempts[k]

----------------------------------------------------------------------------
(***************************************************************************)
(* Part III.  SpringerSearcher.search: a rate-limited connector            *)
(*                                                                         *)
(* One SpringerSearcher with an API key and its RateLimiter                *)
(* ({ requestsPerSecond: 0.05, burstCapacity: 5 }).  search() runs without *)
(* interruption up to an await that is not settled yet: the OpenAccess     *)
(* test request, a queued waitForPermission(), the search request.  A      *)
(* waitForPermission() resolved at once lets search() go on to its request *)
(* before any other network event is handled.                              *)
(*                                                                         *)
(* A search record (one per search() call of a client; the re-query after  *)
(* a 403 runs inside the call that made it):                               *)
(*   pc         "testing" / "waiting" / "request" / "done"                 *)
(*   openAccess options.openAccess === true                                *)
(*   filters    options.year || options.subject                            *)
(*   waitId     the waitForPermission call it awaits (index into calls)    *)
(*   permit     a waitForPermission of this call has completed and no      *)
(*              request was sent since                                     *)
(*   sent       history: API requests this call has sent                   *)
(*   deniedAt   history: value of sent when a 401 / 403 came in, else 0    *)
(*   result     "papers" / "error"                                         *)
(***************************************************************************)

MaxSearches == 2   \* search() calls in one behaviour

\* new RateLimiter({ requestsPerSecond: 0.05, burstCapacity: 5 })
SpringerLimiter == [rpsNum |-> 1, rpsDen |-> 20, burst |-> 5]

\* The connector and its limiter as one value.
Connector ==
    [lim |-> Limiter, calls |-> calls, refilled |-> refilled,
     searches |-> searches, has |-> hasOpenAccessAPI, wire |-> wire]

\* this.openAccessClient.get / this.metadataClient.get: call i sends a request.
SendRequest(k, i, pc) ==
    [k EXCEPT !.wire = Append(@, [call |-> i, kind |-> pc,
                                  permitted |-> k.searches[i].permit]),
              !.searches[i] = [@ EXCEPT !.pc = pc, !.permit = FALSE,
                                        !.sent = @ + 1]]

\* await this.rateLimiter.waitForPermission() and, when it resolves at once,
\* the request of lines 162-168.
AskPermission(k, i) ==
    LET id == Len(k.calls) + 1
        r  == waitForPermission(cfg, k.lim, now, id)
        k1 == [k EXCEPT !.lim = r[1],
                        !.refilled = @ + Added(cfg, k.lim, now)]
    IN  IF r[2]
        THEN SendRequest(
                 [k1 EXCEPT !.calls = Append(@,
                                [timestamp |-> now, via |-> "immediate", at |-> now,
                                 ord |-> Cardinality({c \in 1..Len(k.calls) :
                                                         k.calls[c].via # "queued"}) + 1]),
                            !.searches[i].permit = TRUE],
                 i, "request")
        ELSE [k1 EXCEPT !.calls = Append(@,
                            [timestamp |-> now, via |-> "queued", at |-> 0, ord |-> 0]),
                        !.searches[i] = [@ EXCEPT !.pc = "waiting", !.waitId = id]]

\* search() from its first line: the OpenAccess test when it is due (lines
\* 111-113, testOpenAccessAPI up to its await), else on to the permission.
RunSearch(k, i) ==
    IF k.searches[i].openAccess /\ k.has = "undefined"
    THEN SendRequest(k, i, "testing")
    ELSE AskPermission(k, i)

\* A queued waitForPermission() was resolved by the sweep: the request follows.
RECURSIVE Permitted(_, _)
Permitted(k, done) ==
    IF done = <<>> THEN k
    ELSE LET i == CHOOSE j \in 1..Len(k.searches) :
                      k.searches[j].pc = "waiting" /\ k.searches[j].waitId = Head(done)
         IN  Permitted(SendRequest([k EXCEPT !.searches[i].permit = TRUE], i, "request"),
                       Tail(done))

\* A catch block that repeats the query as it was after a 403.
AnsweredKeepsFilters(k, i, status) ==
    LET denied == [k EXCEPT !.searches[i].deniedAt =
                       IF @ = 0 /\ status \in {401, 403} THEN k.searches[i].sent ELSE @]
        failed == [denied EXCEPT !.searches[i] = [@ EXCEPT !.pc = "done", !.result = "error"]]
    IN  CASE status = 200 ->
               [k EXCEPT !.searches[i] = [@ EXCEPT !.pc = "done", !.result = "papers"]]
          [] status = 403 /\ k.searches[i].filters -> RunSearch(denied, i)
          [] OTHER -> failed

\* The catch block of search() (lines 201-223) for a response status.
Answered(k, i, status) ==
    LET denied == [k EXCEPT !.searches[i].deniedAt =
                       IF @ = 0 /\ status \in {401, 403} THEN k.searches[i].sent ELSE @]
        failed == [denied EXCEPT !.searches[i] = [@ EXCEPT !.pc = "done", !.result = "error"]]
    IN  CASE status = 200 ->
               [k EXCEPT !.searches[i] = [@ EXCEPT !.pc = "done", !.result = "papers"]]
          [] status = 403 /\ k.searches[i].filters ->
               \* return this.search(query, simpleOptions)
               RunSearch([denied EXCEPT !.searches[i].filters = FALSE], i)
          [] OTHER -> failed

InstallConnector(k) ==
    /\ Install(k.lim)
    /\ calls' = k.calls
    /\ refilled' = k.refilled
    /\ searches' = k.searches
    /\ hasOpenAccessAPI' = k.has
    /\ wire' = k.wire

\* The connector when the first search() of the behaviour is made: its limiter
\* full (just constructed), or down to its last token after earlier searches
\* that are over.
SpringerInit ==
    /\ cfg = SpringerLimiter
    /\ tokens \in {burstCapacity(cfg), OneToken(cfg)}
    /\ lastRefill = 0
    /\ pendingRequests = <<>>
    /\ now = 0
    /\ calls = <<>>
    /\ refilled = 0
    /\ lastStatus = NoStatus
    /\ ticks = 0
    /\ SpringerIdle
    /\ SearcherIdle
    /\ QueryIdle

\* A client calls search(query, options).
SpringerSearch ==
    /\ Len(searches) < MaxSearches
    /\ \E oa \in BOOLEAN, fl \in BOOLEAN :
          LET rec == [pc |-> "done", openAccess |-> oa, filters |-> fl, waitId |-> 0,
                      permit |-> FALSE, sent |-> 0, deniedAt |-> 0, result |-> "-"]
              k   == [Connector EXCEPT !.searches = Append(@, rec)]
          IN  InstallConnector(RunSearch(k, Len(searches) + 1))
    /\ response' = NoResponse
    /\ UNCHANGED <<cfg, now, ticks, shvars, qvars, lastStatus>>

\* The OpenAccess test request settles (lines 367-377): status 200, or a
\* throw (401, network error, ...); search() goes on at line 116.
TestSettles ==
    \E i \in 1..Len(searches), ok \in BOOLEAN :
        /\ searches[i].pc = "testing"
        /\ InstallConnector(
              AskPermission([Connector EXCEPT !.has = IF ok THEN "true" ELSE "false"], i))
        /\ response' = NoResponse
        /\ UNCHANGED <<cfg, now, ticks, shvars, qvars, lastStatus>>

\* The limiter's setInterval callback fires; the searches it resolves send
\* their requests.
SpringerSweep ==
    /\ LET r == processPendingRequests(cfg, Limiter, now)
           k == [Connector EXCEPT
                    !.lim = r[1],
                    !.refilled = @ + Added(cfg, Limiter, now),
                    !.calls = Resolve(calls, r[2], "sweep", now, Cardinality(Resolved))]
       IN  InstallConnector(Permitted(k, r[2]))
    /\ response' = NoResponse
    /\ UNCHANGED <<cfg, now, ticks, shvars, qvars, lastStatus>>

\* The search request settles with a status (other statuses and network
\* errors behave as 500 does).
ResponseSettles ==
    \E i \in 1..Len(searches), status \in {200, 401, 403, 429, 500} :
        /\ searches[i].pc = "request"
        /\ InstallConnector(Answered(Connector, i, status))
        /\ response' = [call |-> i, status |-> status]
        /\ UNCHANGED <<cfg, now, ticks, shvars, qvars, lastStatus>>

\* Time passes: one refill interval of the limiter.
SpringerTick ==
    /\ ticks < MaxTicks
    /\ now' = now + intervalMs(cfg)
    /\ ticks' = ticks + 1
    /\ response' = NoResponse
    /\ UNCHANGED <<cfg, tokens, lastRefill, pendingRequests, calls, refilled,
                   searches, hasOpenAccessAPI, wire, shvars, qvars, lastStatus>>

SpringerNext ==
    \/ SpringerSearch
    \/ TestSettles
    \/ SpringerSweep
    \/ ResponseSettles
    \/ SpringerTick

SpringerSpec == SpringerInit /\ [][SpringerNext]_vars

----------------------------------------------------------------------------
\* C15: a 401 or 403 response to a call ends that call with an error at once,
\* and the call sends no further request (retry, rotation or simplified
\* re-query) after it.
C15_AuthErrorIsFinal ==
    \A i \in 1..Len(searches) :
        searches[i].deniedAt # 0 =>
            /\ searches[i].pc = "done"
            /\ searches[i].result = "error"
            /\ searches[i].sent = searches[i].deniedAt

\* C16: every request sent to the source's API follows a waitForPermission
\* call of its own on the connector's limiter, completed since the request
\* before it of the same call: one permission per request.
C16_PermissionPerRequest ==
    \A n \in 1..Len(wire) : wire[n].permitted

----------------------------------------------------------------------------
\* getMirrorStatus(): url, status and responseTime of every entry, in order.
getMirrorStatus(sites) ==
    [i \in 1..Len(sites) |->
        [url |-> sites[i].url,
         status |-> IF sites[i].isWorking THEN "Working" ELSE "Failed",
         responseTime |-> sites[i].responseTime]]

\* C17: when a probe round over the N mirrors ends in which exactly k probes
\* answered 200 with valid content, getMirrorStatus returns N entries of which
\* exactly k are "Working", and if k > 0 the first entry is a Working one with
\* the lowest responseTime of them.
C17_Ranked ==
    \A r \in 1..Len(rounds) :
        (rounds[r].open /\ ~rounds'[r].open) =>
            LET status  == getMirrorStatus(mirrorSites')
                k       == rounds'[r].oks
                working == {i \in 1..Len(status) : status[i].status = "Working"}
            IN  /\ Len(status) = NumMirrors
                /\ Cardinality(working) = k
                /\ k > 0 =>
                      /\ status[1].status = "Working"
                      /\ \A i \in working :
                             status[1].responseTime <= status[i].responseTime

C17_ProbeRanking == [][C17_Ranked]_vars

----------------------------------------------------------------------------
(***************************************************************************)
(* Part IV.  SciHubSearcher.search and isValidDOIOrURL                     *)
(*                                                                         *)
(* A query is a sequence of text pieces; the code sees their characters.   *)
(* The three regular expressions of isValidDOIOrURL are matched character  *)
(* by character as the JavaScript engine matches them.                     *)
(***************************************************************************)

MaxPieces == 3   \* text pieces in a query

\* The text pieces and their characters.
Pieces ==
    [doi      |-> <<"d", "o", "i", ":">>,
     DOIsp    |-> <<"D", "O", "I", ":", " ">>,
     doi4     |-> <<"1", "0", ".", "1", "2", "3", "4", "/">>,
     doi3     |-> <<"1", "0", ".", "1", "2", "3", "/">>,
     doi4bare |-> <<"1", "0", ".", "1", "2", "3", "4">>,
     a        |-> <<"a">>,
     hash     |-> <<"#">>,
     space    |-> <<" ">>,
     http     |-> <<"h", "t", "t", "p", ":", "/", "/">>,
     https    |-> <<"h", "t", "t", "p", "s", ":", "/", "/">>,
     ftp      |-> <<"f", "t", "p", ":", "/", "/">>]

RECURSIVE QueriesOfLength(_)
QueriesOfLength(n) ==
    IF n = 0 THEN {<<>>}
    ELSE {Append(q, p) : q \in QueriesOfLength(n - 1), p \in DOMAIN Pieces}

Queries == UNION {QueriesOfLength(n) : n \in 0..MaxPieces}

\* The characters of a query.
RECURSIVE Chars(_)
Chars(q) == IF q = <<>> THEN <<>> ELSE Pieces[Head(q)] \o Chars(Tail(q))

Digits == {"0", "1", "2", "3", "4"}
Letters == {"a", "d", "o", "i", "h", "t", "p", "s", "f", "D", "O", "I"}
\* [-._;()\/:a-zA-Z0-9]
SuffixChars == {"-", ".", "_", ";", "(", ")", "/", ":"} \cup Letters \cup Digits
\* \s
Whitespace == {" "}
\* the i flag: characters compared in one case
Lower(c) == CASE c = "D" -> "d" [] c = "O" -> "o" [] c = "I" -> "i" [] OTHER -> c

\* The end of the longest run of characters of `class` that starts at i.
RECURSIVE RunEnd(_, _, _)
RunEnd(s, i, class) ==
    IF i <= Len(s) /\ s[i] \in class THEN RunEnd(s, i + 1, class) ELSE i

\* 10\.\d{4,}\/[-._;()\/:a-zA-Z0-9]+$ matched from position i.
MatchDoiFrom(s, i) ==
    /\ i + 2 <= Len(s)
    /\ s[i] = "1" /\ s[i + 1] = "0" /\ s[i + 2] = "."
    /\ LET d == RunEnd(s, i + 3, Digits)
       IN  /\ d - (i + 3) >= 4
           /\ d <= Len(s) /\ s[d] = "/"
           /\ d + 1 <= Len(s)
           /\ RunEnd(s, d + 1, SuffixChars) = Len(s) + 1

\* /^10\.\d{4,}\/[-._;()\/:a-zA-Z0-9]+$/
doiPattern(s) == MatchDoiFrom(s, 1)

\* /^https?:\/\/.+/
urlPattern(s) ==
    LET HasAt(i, w) == /\ i + Len(w) - 1 <= Len(s)
                       /\ \A j \in 1..Len(w) : s[i + j - 1] = w[j]
        rest == IF HasAt(5, <<"s">>) THEN 6 ELSE 5
    IN  /\ HasAt(1, <<"h", "t", "t", "p">>)
        /\ HasAt(rest, <<":", "/", "/">>)
        /\ rest + 3 <= Len(s)

\* /^doi:\s*10\.\d{4,}\/[-._;()\/:a-zA-Z0-9]+$/i
doiPrefixPattern(s) ==
    /\ Len(s) >= 4
    /\ <<Lower(s[1]), Lower(s[2]), Lower(s[3]), s[4]>> = <<"d", "o", "i", ":">>
    /\ MatchDoiFrom(s, RunEnd(s, 5, Whitespace))

\* A test that lets every query through.
isValidAlways(s) == TRUE

\* isValidDOIOrURL(input)
isValidDOIOrURL(s) == doiPattern(s) \/ urlPattern(s) \/ doiPrefixPattern(s)

\* A searcher just constructed, about to get a search(query) call.
QueryInit ==
    /\ SearcherConstructed
    /\ query \in Queries
    /\ searchResult = "-"

\* search(query): return [] for a query that fails the test, else
\* await this.fetchPaperInfo(query).
SciHubSearch ==
    /\ searchResult = "-"
    /\ IF ~isValidDOIOrURL(Chars(query))
       THEN /\ searchResult' = "empty"
            /\ UNCHANGED <<mirrorSites, lastHealthCheck, rounds, fetches, reported,
                           answers, probed>>
       ELSE /\ searchResult' = "fetching"
            /\ Commit(getCurrentMirror(World(Len(fetches) + 1, NewFetch), "init",
                                       lastHealthCheck))
            /\ UNCHANGED <<lastHealthCheck, probed>>
    /\ UNCHANGED <<query, now, ticks, rlvars, spvars>>

QueryNext == SciHubSearch

QuerySpec == QueryInit /\ [][QueryNext]_vars

----------------------------------------------------------------------------
\* What the claim calls a DOI, optionally prefixed with doi:, and an http(s)
\* URL, in terms of the pieces of the query.
PlainPieces == {"doi", "doi4", "doi3", "doi4bare", "a", "http", "https", "ftp"}

IsDoi(q) ==
    /\ Len(q) >= 2
    /\ q[1] = "doi4"
    /\ \A n \in 2..Len(q) : q[n] \in PlainPieces

RECURSIVE SkipSpaces(_)
SkipSpaces(q) == IF q # <<>> /\ Head(q) = "space" THEN SkipSpaces(Tail(q)) ELSE q

IsPrefixedDoi(q) ==
    /\ q # <<>>
    /\ Head(q) \in {"doi", "DOIsp"}
    /\ IsDoi(SkipSpaces(Tail(q)))

IsHttpUrl(q) == Len(q) >= 2 /\ q[1] \in {"http", "https"}

\* C18: for a query that is neither a DOI (optionally prefixed with doi:)
\* nor an http(s) URL, search returns [] without selecting an endpoint,
\* probing, sending a live request or reporting a failure.
C18_InvalidQueryIsInert ==
    (searchResult # "-" /\ ~(IsDoi(query) \/ IsPrefixedDoi(query) \/ IsHttpUrl(query))) =>
        /\ searchResult = "empty"
        /\ fetches = <<>>
        /\ answers = 0
        /\ Len(rounds) = 1
        /\ \A u \in Urls : reported[u] = 0

\* A DOI with a three-digit registrant code was turned away.
C18_Witness ==
    /\ searchResult = "empty"
    /\ query = <<"doi", "doi3", "a">>
    /\ fetches = <<>>

----------------------------------------------------------------------------
\* C19: whenever a refill adds n >= 1 tokens, lastRefill advances by exactly
\* n * intervalMs (not to the current time), so the rest of the elapsed time
\* counts toward the next token.
C19_Advance ==
    lastRefill' # lastRefill =>
        lastRefill' = lastRefill + ((now - lastRefill) \div intervalMs(cfg)) * intervalMs(cfg)

C19_LastRefillAdvancesByWholeIntervals == [][C19_Advance]_vars

\* C20: a refill with elapsed time e since lastRefill sets tokens to
\* min(capacity, tokens + floor(e / intervalMs)), and changes neither tokens
\* nor lastRefill when e < intervalMs.  (getStatus() is the refill alone.)
C20_Refill ==
    GetStatus =>
        LET e == now - lastRefill
        IN  /\ tokens' = Min(burstCapacity(cfg),
                             tokens + (e \div intervalMs(cfg)) * OneToken(cfg))
            /\ e < intervalMs(cfg) => (tokens' = tokens /\ lastRefill' = lastRefill)

C20_RefillAmount == [][C20_Refill]_vars

\* Ten per second, burst five: two calls at 0, a refill at 100 ms that added
\* one token, and 50 ms later nothing more has been added.
C20_Witness ==
    /\ cfg = [rpsNum |-> 10, rpsDen |-> 1, burst |-> 5]
    /\ Len(calls) = 2
    /\ refilled = OneToken(cfg)
    /\ tokens = 4 * OneToken(cfg)
    /\ lastRefill = 100
    /\ now = 150

----------------------------------------------------------------------------
\* The bucket level a refill at the current time leaves (the rule of C20).
LevelAfterRefill ==
    Min(burstCapacity(cfg),
        tokens + ((now - lastRefill) \div intervalMs(cfg)) * OneToken(cfg))

\* C21: a waitForPermission call that finds tokens > 0 after its own refill
\* completes at once, with tokens decremented by one and the wait queue
\* unchanged; such a call is never enqueued.
C21_Immediate ==
    (WaitForPermission /\ LevelAfterRefill > 0) =>
        /\ tokens' = LevelAfterRefill - OneToken(cfg)
        /\ pendingRequests' = pendingRequests
        /\ calls'[Len(calls')].via = "immediate"
        /\ calls'[Len(calls')].at = now

C21_ImmediatePath == [][C21_Immediate]_vars

\* A call made after time had passed took the token its own refill added,
\* at once, while an earlier caller stayed in the wait queue.
C21_Witness ==
    /\ now > 0
    /\ Len(calls) >= 2
    /\ calls[Len(calls)].via = "immediate"
    /\ calls[Len(calls)].timestamp = now
    /\ lastRefill = now
    /\ Len(pendingRequests) > 0
    /\ tokens = 0

\* C22: each background sweep, after its refill, grants exactly
\* min(tokens, length of the wait queue) callers, taken from the head of the
\* queue in order, with one token decremented per grant; when the sweep ends,
\* tokens = 0 or the queue is empty.
C22_Sweep ==
    ProcessPendingRequests =>
        LET n == Len(pendingRequests)
            g == n - Len(pendingRequests')
        IN  /\ g * OneToken(cfg) = Min(LevelAfterRefill, n * OneToken(cfg))
            /\ pendingRequests' = SubSeq(pendingRequests, g + 1, n)
            /\ tokens' = LevelAfterRefill - g * OneToken(cfg)
            /\ \A k \in 1..g :
                   /\ calls'[pendingRequests[k].id].via = "sweep"
                   /\ calls'[pendingRequests[k].id].ord = Cardinality(Resolved) + k
            /\ tokens' = 0 \/ pendingRequests' = <<>>

C22_SweepGrants == [][C22_Sweep]_vars

\* C23: cleanup() removes from the wait queue exactly the entries that have
\* waited more than 30 s, completes each of them by a grant, and leaves
\* tokens, lastRefill and the order of the remaining entries unchanged.
Fresh(e) == now - e.timestamp <= timeoutMs

C23_Cleanup ==
    Cleanup =>
        /\ pendingRequests' = SelectSeq(pendingRequests, Fresh)
        /\ \A k \in 1..Len(pendingRequests) :
               LET id == pendingRequests[k].id
               IN  IF Fresh(pendingRequests[k])
                   THEN calls'[id] = calls[id] /\ calls[id].via = "queued"
                   ELSE calls'[id].via = "cleanup" /\ calls'[id].at = now
        /\ tokens' = tokens
        /\ lastRefill' = lastRefill

C23_CleanupFrame == [][C23_Cleanup]_vars

\* cleanup() has released a caller queued for more than 30 s and left a
\* younger entry in the queue.
C23_Witness ==
    /\ \E i \in 1..Len(calls) :
           calls[i].via = "cleanup" /\ calls[i].at = now
    /\ Len(pendingRequests) > 0
    /\ \A k \in 1..Len(pendingRequests) : Fresh(pendingRequests[k])

\* C24: no caller stays in the wait queue indefinitely without a token: an
\* entry that has waited more than 30 s is removed by the limiter itself
\* (its sweep timer and the passing of time are all that is needed).
StaleQueued(id) ==
    \E k \in 1..Len(pendingRequests) :
        /\ pendingRequests[k].id = id
        /\ now - pendingRequests[k].timestamp > timeoutMs

C24_StaleWaitEnds ==
    \A id \in 1..MaxQueue : StaleQueued(id) ~> (id \notin QueuedIds)

\* C25: getStatus returns availableTokens equal to tokens after a refill,
\* maxTokens equal to the capacity, requestsPerSecond as configured and
\* pendingRequests equal to the length of the wait queue; it grants no caller
\* and leaves the wait queue unchanged.
C25_Status ==
    GetStatus =>
        /\ lastStatus'.availableTokens = LevelAfterRefill
        /\ lastStatus'.availableTokens = tokens'
        /\ lastStatus'.maxTokens = burstCapacity(cfg)
        /\ lastStatus'.requestsPerSecond = <<cfg.rpsNum, cfg.rpsDen>>
        /\ lastStatus'.pendingRequests = Len(pendingRequests)
        /\ pendingRequests' = pendingRequests
        /\ calls' = calls

C25_StatusReport == [][C25_Status]_vars

\* getStatus() was called one refill interval after the bucket was emptied
\* and a caller queued: it reports the token its refill added and the
\* caller still waiting.
C25_Witness ==
    /\ lastStatus # NoStatus
    /\ lastStatus.availableTokens = OneToken(cfg)
    /\ lastStatus.pendingRequests = 1
    /\ lastRefill = now
    /\ now = intervalMs(cfg)

----------------------------------------------------------------------------
\* C26: in every reachable state, under any interleaving of probe rounds and
\* reportFailure calls, an endpoint whose consecutiveFailures is 3 or more
\* has isHealthy = false.
C26_ThresholdOpens ==
    \A i \in 1..Len(mirrorSites) :
        mirrorSites[i].failureCount >= failureThreshold => ~mirrorSites[i].isWorking

\* An endpoint's counter has reached the threshold, the last failures being
\* reported ones, and the endpoint is unhealthy.
C26_Witness ==
    \E i \in 1..Len(mirrorSites) :
        /\ mirrorSites[i].failureCount >= failureThreshold
        /\ ~mirrorSites[i].isWorking
        /\ reported[mirrorSites[i].url] >= 1

\* The entry of an endpoint in the list (the first one with its url), and
\* whether the list has one.
Listed(sites, u) == FindIndex(sites, u) # 0
EntryOf(sites, u) == sites[FindIndex(sites, u)]

\* The step settled a probe of u, and nothing was reported against u after
\* the probe's result was written.
ProbeOf(u) == probed' # NoProbe /\ probed'.url = u /\ reported'[u] = 0

\* C27: a probe of an endpoint that fails (by error or timeout, by a status
\* other than 200, or by a body lacking the validity markers) increases that
\* endpoint's consecutiveFailures by exactly one; only a probe that succeeds
\* sets it back to 0.
C27_Probe ==
    \A u \in Urls :
        (Listed(mirrorSites, u) /\ Listed(mirrorSites', u)) =>
            /\ (ProbeOf(u) /\ probed'.outcome # "ok") =>
                   EntryOf(mirrorSites', u).failureCount
                       = EntryOf(mirrorSites, u).failureCount + 1
            /\ (/\ EntryOf(mirrorSites, u).failureCount > 0
                /\ EntryOf(mirrorSites', u).failureCount = 0) =>
                   (ProbeOf(u) /\ probed'.outcome = "ok")

C27_ProbeCounting == [][C27_Probe]_vars

\* C28: a failure of an endpoint has the same effect on (consecutiveFailures,
\* isHealthy) whether it comes from a probe or from reportFailure: isHealthy
\* becomes false only when the counter reaches 3, so a healthy endpoint with
\* fewer than 3 consecutive failures is still healthy after the failure.
FailureOf(u) ==
    \/ probed' # NoProbe /\ probed'.url = u /\ probed'.outcome # "ok"
    \/ reported'[u] > reported[u]

C28_Failure ==
    \A u \in Urls :
        (/\ FailureOf(u)
         /\ Listed(mirrorSites, u) /\ Listed(mirrorSites', u)
         /\ EntryOf(mirrorSites, u).isWorking
         /\ EntryOf(mirrorSites', u).failureCount < failureThreshold) =>
            EntryOf(mirrorSites', u).isWorking

C28_SameFailureRule == [][C28_Failure]_vars

\* C29: an endpoint's isHealthy goes from false to true only in a probe round
\* in which that endpoint's probe succeeded, and at that step its
\* consecutiveFailures is 0; reportFailure, selectEndpoint without a probe,
\* getMirrorStatus and live fetches never make an endpoint healthy.
C29_Heals ==
    \A u \in Urls :
        (~Healthy(mirrorSites, u) /\ Healthy(mirrorSites', u)) =>
            /\ probed' = [url |-> u, outcome |-> "ok"]
            /\ \A i \in 1..Len(mirrorSites') :
                   (mirrorSites'[i].url = u /\ mirrorSites'[i].isWorking) =>
                       mirrorSites'[i].failureCount = 0

C29_HealedOnlyByProbe == [][C29_Heals]_vars

\* getCurrentMirror() found every mirror unhealthy and forced a round; a
\* probe of that round has just succeeded and its mirror is healthy again.
C29_Witness ==
    \E f \in 1..Len(fetches) :
        /\ fetches[f].pc = "probing"
        /\ fetches[f].stage = "forced"
        /\ fetches[f].allDown
        /\ probed # NoProbe
        /\ probed.outcome = "ok"
        /\ Healthy(mirrorSites, probed.url)

\* C30: when a probe round completes, the endpoint list is ordered with every
\* healthy endpoint before every unhealthy one and, inside each of the two
\* groups, by ascending measured latency, for every combination of latencies
\* (0 ms counts as the lowest latency, a missing latency as the highest).
Latency(m) == IF m.responseTime = NoTime THEN Infinity ELSE m.responseTime

RoundCompletes == \E r \in 1..Len(rounds) : rounds[r].open /\ ~rounds'[r].open

C30_Ordered ==
    RoundCompletes =>
        \A i, j \in 1..Len(mirrorSites') :
            i < j =>
                /\ mirrorSites'[i].isWorking \/ ~mirrorSites'[j].isWorking
                /\ (mirrorSites'[i].isWorking = mirrorSites'[j].isWorking) =>
                       Latency(mirrorSites'[i]) <= Latency(mirrorSites'[j])

C30_SortedAfterRound == [][C30_Ordered]_vars

\* C31: every probe round evaluates each configured endpoint, whichever
\* subset of the endpoints errors or times out: a round probes every
\* configured url, its probes settle one by one whatever their outcomes, and
\* it completes only when the last of them has settled.
ProbedUrls(sites, round) == {Captured(sites, p).url : p \in round.pending}

C31_Round ==
    /\ Len(rounds') > Len(rounds) =>
           ProbedUrls(mirrorSites', rounds'[Len(rounds')]) = Urls
    /\ \A r \in 1..Len(rounds) :
           rounds[r].open =>
               IF rounds'[r].open
               THEN Cardinality(rounds'[r].pending)
                        >= Cardinality(rounds[r].pending) - 1
               ELSE Cardinality(rounds[r].pending) = 1

C31_EveryEndpointEvaluated == [][C31_Round]_vars

\* C32: selectEndpoint returns without running a probe round only if a probe
\* round completed no more than probeIntervalMs (5 minutes) earlier; if no
\* round has completed yet, or the last one is older, it runs a probe round
\* before choosing.
C32_Fresh ==
    \A f \in 1..MaxFetches :
        (Answer(f) /\ fetches'[f].nrounds = 0) =>
            /\ lastHealthCheck' # NoTime
            /\ now' - lastHealthCheck' <= healthCheckInterval

C32_ProbesWhenStale == [][C32_Fresh]_vars

\* getCurrentMirror() answered at once, a millisecond after the last round
\* had completed.
C32_Witness ==
    \E f \in 1..Len(fetches) :
        /\ fetches[f].ans = "return"
        /\ fetches[f].nrounds = 0
        /\ fetches[f].retries = 0
        /\ lastHealthCheck # NoTime
        /\ now > lastHealthCheck

\* C33: at most one probe round is in flight at any time: a selectEndpoint
\* or forceHealthCheck call made while a round is outstanding (the round
\* started at construction included) waits for it instead of starting a
\* second one.
C33_OneRoundInFlight == Cardinality(OpenRounds(rounds)) <= 1

\* C34: in every reachable state, under any interleaving of probe rounds,
\* reportFailure calls and fetches, the endpoint list holds each configured
\* mirror url exactly once.
C34_EachUrlOnce ==
    \A u \in Urls :
        Cardinality({i \in 1..Len(mirrorSites) : mirrorSites[i].url = u}) = 1

----------------------------------------------------------------------------
\* C35: whenever the wait queue is non-empty, tokens is 0, at every instant
\* between limiter operations; in particular getStatus never reports
\* availableTokens > 0 together with pendingRequests > 0.
C35_NoTokenWhileQueued ==
    /\ Len(pendingRequests) > 0 => tokens = 0
    /\ lastStatus # NoStatus =>
           ~(lastStatus.availableTokens > 0 /\ lastStatus.pendingRequests > 0)

----------------------------------------------------------------------------
\* url, isHealthy and consecutiveFailures of every entry, in list order.
Health(sites) ==
    [i \in 1..Len(sites) |->
        <<sites[i].url, sites[i].isWorking, sites[i].failureCount>>]

\* C36: a live fetch attempt that succeeds changes no endpoint's isHealthy or
\* consecutiveFailures: failures counted against an endpoint before a
\* successful fetch still count toward its threshold of 3 afterwards.
C36_Success ==
    \A f \in 1..Len(fetches) :
        (/\ fetches[f].pc = "attempt"
         /\ fetches'[f].pc = "done"
         /\ fetches'[f].result = "paper") =>
            Health(mirrorSites') = Health(mirrorSites)

C36_SuccessKeepsCounters == [][C36_Success]_vars

\* A fetch failed on one mirror and succeeded on the next: the first mirror
\* is still healthy with its one failure counted.
C36_Witness ==
    \E f \in 1..Len(fetches) :
        /\ fetches[f].result = "paper"
        /\ Len(fetches[f].attempts) = 2
        /\ \E i \in 1..Len(mirrorSites) :
               /\ mirrorSites[i].url = fetches[f].attempts[1]
               /\ mirrorSites[i].isWorking
               /\ mirrorSites[i].failureCount = 1

----------------------------------------------------------------------------
\* The search requests (not the OpenAccess test) that call i has sent.
SearchRequests(i) ==
    {n \in 1..Len(wire) : wire[n].call = i /\ wire[n].kind = "request"}

\* No call has sent more than two search requests, and each of them followed
\* a waitForPermission of its own.
C37_Bound ==
    \A i \in 1..Len(searches) :
        /\ Cardinality(SearchRequests(i)) <= 2
        /\ \A n \in SearchRequests(i) : wire[n].permitted

\* The response handled in the step: the call goes on to a re-query exactly
\* after a 403 with year or subject set; the re-query has the filters removed
\* and starts with a new waitForPermission call, by which its request is
\* permitted or for which it waits; any other failure ends the call.
C37_Requery ==
    response' # NoResponse =>
        LET i       == response'.call
            before  == searches[i]
            after   == searches'[i]
            requery == after.pc \in {"waiting", "request"}
        IN  /\ requery <=> (response'.status = 403 /\ before.filters)
            /\ requery =>
                  /\ ~after.filters
                  /\ Len(calls') = Len(calls) + 1
                  /\ after.pc = "request" =>
                        wire' = Append(wire, [call |-> i, kind |-> "request",
                                              permitted |-> TRUE])
                  /\ after.pc = "waiting" =>
                        /\ wire' = wire
                        /\ after.waitId = Len(calls')
            /\ (response'.status = 403 /\ ~before.filters) =>
                  /\ after.pc = "done"
                  /\ after.result = "error"
                  /\ wire' = wire

\* C37: SpringerSearcher.search sends at most two search requests: a 403
\* triggers one re-query with the year and subject filters removed only when
\* one of them was set, the re-query acquires its own permission from the
\* limiter, and a 403 on a query without those filters is raised as an error.
C37_AtMostTwoSearchRequests == []C37_Bound /\ [][C37_Requery]_vars

\* A call that was answered 403, waited in the limiter's queue for the
\* permission of its re-query and was then answered with papers.
C37_Witness ==
    \E i \in 1..Len(searches) :
        /\ searches[i].pc = "done"
        /\ searches[i].result = "papers"
        /\ searches[i].deniedAt # 0
        /\ searches[i].waitId # 0
        /\ calls[searches[i].waitId].via = "sweep"
        /\ Cardinality(SearchRequests(i)) = 2

====
